---- MODULE Spec2Model ----
(***************************************************************************)
(* logwrap: the recursive pretty-printing engine (pretty_repr / pretty_str)*)
(* over the formatter tables of logwrap/_formatters.py.                    *)
(*                                                                         *)
(* Text is a sequence of one-character strings; "\n" is the line break.    *)
(* Values are records tagged by their Python type in field t.              *)
(***************************************************************************)
EXTENDS Integers, Sequences, FiniteSets, TLC

VARIABLES src, indent, max_indent, no_indent_start, mode, result, pc

vars == <<src, indent, max_indent, no_indent_start, mode, result, pc>>

(***************************************************************************)
(* Bounds of the model.                                                    *)
(***************************************************************************)
\* longest container drawn as an input
MaxLen == 2
\* deepest chain [[...[123]...]] drawn as an input
NestDepth == 10

(***************************************************************************)
(* Text helpers.                                                           *)
(***************************************************************************)
\* "{spc:<{indent}}" with spc='' : indent spaces
Spc(n) == [i \in 1..n |-> " "]

\* "{key!r:{size}}" : a string left-aligned in a field of width size
PadField(s, size) == IF Len(s) >= size THEN s ELSE s \o Spc(size - Len(s))

RECURSIVE Join(_, _)
\* sep.join(parts)
Join(sep, parts) ==
    IF parts = <<>> THEN <<>>
    ELSE IF Len(parts) = 1 THEN parts[1]
    ELSE parts[1] \o sep \o Join(sep, Tail(parts))

RECURSIVE Concat(_)
\* ''.join(parts)
Concat(parts) == IF parts = <<>> THEN <<>> ELSE parts[1] \o Concat(Tail(parts))

DigitChar(d) == <<"0", "1", "2", "3", "4", "5", "6", "7", "8", "9">>[d + 1]

RECURSIVE IntStr(_)
\* repr / str of a non-negative int
IntStr(n) == IF n < 10 THEN <<DigitChar(n)>>
             ELSE IntStr(n \div 10) \o <<DigitChar(n % 10)>>

(***************************************************************************)
(* Binary strings.  A byte is a token: a one-character ASCII byte, "00"    *)
(* (the valid control byte 0x00) or "f0" (a byte that is not valid UTF-8). *)
(***************************************************************************)
\* val.decode(encoding='utf-8', errors='backslashreplace'), one byte
DecodeByte(b) ==
    IF b = "00" THEN <<"NUL">>                    \* the control character itself
    ELSE IF b = "f0" THEN <<"\\", "x", "f", "0">>  \* backslashreplace
    ELSE <<b>>

RECURSIVE decode(_)
decode(bs) == IF bs = <<>> THEN <<>> ELSE DecodeByte(bs[1]) \o decode(Tail(bs))

\* repr of one byte of a bytes object
ReprByte(b) ==
    IF b = "00" THEN <<"\\", "x", "0", "0">>
    ELSE IF b = "f0" THEN <<"\\", "x", "f", "0">>
    ELSE <<b>>

RECURSIVE ReprBytes(_)
ReprBytes(bs) == IF bs = <<>> THEN <<>> ELSE ReprByte(bs[1]) \o ReprBytes(Tail(bs))

(***************************************************************************)
(* Python's own conversions "!r" and "!s" of the values drawn.             *)
(***************************************************************************)
IsContainer(v) == v.t \in {"list", "tuple", "set", "dict"}

ContainerLen(v) == IF v.t = "dict" THEN Len(v.keys) ELSE Len(v.items)

RECURSIVE py_repr(_)
py_repr(v) ==
    CASE v.t = "int"   -> IntStr(v.n)
      [] v.t = "bool"  -> IF v.b THEN <<"T", "r", "u", "e">> ELSE <<"F", "a", "l", "s", "e">>
      [] v.t = "text"  -> <<"'">> \o v.s \o <<"'">>
      [] v.t = "bytes" -> <<"b", "'">> \o ReprBytes(v.bs) \o <<"'">>
      [] v.t = "list"  ->
            <<"[">> \o Join(<<",", " ">>, [i \in 1..Len(v.items) |-> py_repr(v.items[i])]) \o <<"]">>
      [] v.t = "tuple" ->
            <<"(">> \o Join(<<",", " ">>, [i \in 1..Len(v.items) |-> py_repr(v.items[i])])
                    \o (IF Len(v.items) = 1 THEN <<",">> ELSE <<>>) \o <<")">>
      [] v.t = "set"   ->
            IF v.items = <<>> THEN <<"s", "e", "t", "(", ")">>
            ELSE <<"{">> \o Join(<<",", " ">>, [i \in 1..Len(v.items) |-> py_repr(v.items[i])]) \o <<"}">>
      [] v.t = "dict"  ->
            <<"{">> \o Join(<<",", " ">>,
                            [i \in 1..Len(v.keys) |->
                                py_repr(v.keys[i]) \o <<":", " ">> \o py_repr(v.vals[i])])
                    \o <<"}">>
      [] v.t = "func"  -> <<"<", "f", "u", "n", "c", "t", "i", "o", "n", " ">> \o v.name \o <<">">>
      [] v.t = "obj"   -> v.r
      [] v.t = "Tst"   -> <<"T", "e", "s", "t">>

py_str(v) == IF v.t = "text" THEN v.s ELSE py_repr(v)

(***************************************************************************)
(* logwrap/_formatters.py: the formatter tables, one operator per entry.   *)
(***************************************************************************)
\* _strings_repr(indent, val): "{spc:<{indent}}{prefix}'''{string}'''"
_strings_repr(ind, val) ==
    LET string == IF val.t = "bytes" THEN decode(val.bs) ELSE val.s
        prefix == IF val.t = "bytes" THEN <<"b">> ELSE <<"u">>
    IN  Spc(ind) \o prefix \o <<"'", "'", "'">> \o string \o <<"'", "'", "'">>

\* faulty variant of _set_repr: the set literal braces instead of "set(...)"
_set_repr_braces(ind, val) ==
    Spc(ind) \o <<"{">>
             \o Join(<<" ", ",">>, [i \in 1..Len(val.items) |-> py_repr(val.items[i])])
             \o <<"}">>

\* faulty variant of _set_repr: the first element of the set is left out
_set_repr_skip_first(ind, val) ==
    Spc(ind) \o <<"s", "e", "t", "(">>
             \o Join(<<" ", ",">>, [i \in 2..Len(val.items) |-> py_repr(val.items[i])])
             \o <<")">>

\* _set_repr(indent, val): "{spc:<{indent}}set({})" over ' ,'.join(map('{!r}'.format, val))
_set_repr(ind, val) ==
    Spc(ind) \o <<"s", "e", "t", "(">>
             \o Join(<<" ", ",">>, [i \in 1..Len(val.items) |-> py_repr(val.items[i])])
             \o <<")">>

\* faulty variant of s_repr_formatters['default']: "{val!r}", the margin is lost
s_repr_default_no_margin(ind, val) == py_repr(val)

\* s_repr_formatters['default']: "{spc:<{indent}}{val!r}"
s_repr_default(ind, val) == Spc(ind) \o py_repr(val)

\* faulty variant of c_repr_formatters['dict']: "{key!r}" without the field width
c_repr_dict_no_width(ind, key, size, val) ==
    <<"\n">> \o Spc(ind) \o py_repr(key) \o <<":", " ">> \o val \o <<",">>

\* c_repr_formatters['dict']: "\n{spc:<{indent}}{key!r:{size}}: {val},"
c_repr_dict(ind, key, size, val) ==
    <<"\n">> \o Spc(ind) \o PadField(py_repr(key), size) \o <<":", " ">> \o val \o <<",">>

\* faulty variant of c_repr_formatters['iterable_item']: the opening line has no margin
c_repr_iterable_item_open_unindented(ind, obj_type, start, res, end) ==
    <<"\n">> \o obj_type \o <<"(">> \o start \o res
             \o <<"\n">> \o Spc(ind) \o end \o <<")">>

\* faulty variant of c_repr_formatters['iterable_item']: the closing line has no margin
c_repr_iterable_item_close_unindented(ind, obj_type, start, res, end) ==
    <<"\n">> \o Spc(ind) \o obj_type \o <<"(">> \o start \o res
             \o <<"\n">> \o end \o <<")">>

\* c_repr_formatters['iterable_item']:
\*   "\n{spc:<{indent}}{obj_type:}({start}{result}\n{spc:<{indent}}{end})"
c_repr_iterable_item(ind, obj_type, start, res, end) ==
    <<"\n">> \o Spc(ind) \o obj_type \o <<"(">> \o start \o res
             \o <<"\n">> \o Spc(ind) \o end \o <<")">>

\* c_repr_formatters['callable']: "\n{spc:<{indent}}<{obj!r} with interface ({args})>"
c_repr_callable(ind, obj, args) ==
    <<"\n">> \o Spc(ind) \o <<"<">> \o py_repr(obj)
             \o <<" ", "w", "i", "t", "h", " ", "i", "n", "t", "e", "r", "f", "a", "c", "e", " ", "(">>
             \o args \o <<")", ">">>

\* c_repr_formatters['func_arg']: "\n{spc:<{indent}}{key},"
c_repr_func_arg(ind, key) == <<"\n">> \o Spc(ind) \o key \o <<",">>

\* c_repr_formatters['func_def_arg']: "\n{spc:<{indent}}{key}={val},"
c_repr_func_def_arg(ind, key, val) ==
    <<"\n">> \o Spc(ind) \o key \o <<"=">> \o val \o <<",">>

\* _strings_str(indent, val): "{spc:<{indent}}{string}"
_strings_str(ind, val) ==
    LET string == IF val.t = "bytes" THEN decode(val.bs) ELSE val.s
    IN  Spc(ind) \o string

\* _set_str(indent, val): "{spc:<{indent}}set({})" over ' ,'.join(map('{!s}'.format, val))
_set_str(ind, val) ==
    Spc(ind) \o <<"s", "e", "t", "(">>
             \o Join(<<" ", ",">>, [i \in 1..Len(val.items) |-> py_str(val.items[i])])
             \o <<")">>

\* s_str_formatters['default']: "{spc:<{indent}}{val!s}"
s_str_default(ind, val) == Spc(ind) \o py_str(val)

\* c_str_formatters['dict']: "\n{spc:<{indent}}{key!s:{size}}: {val},"
c_str_dict(ind, key, size, val) ==
    <<"\n">> \o Spc(ind) \o PadField(py_str(key), size) \o <<":", " ">> \o val \o <<",">>

\* c_str_formatters['iterable_item']: "\n{spc:<{indent}}{start}{result}\n{spc:<{indent}}{end}"
c_str_iterable_item(ind, obj_type, start, res, end) ==
    <<"\n">> \o Spc(ind) \o start \o res \o <<"\n">> \o Spc(ind) \o end

\* c_str_formatters['callable']: "\n{spc:<{indent}}<{obj!s} with interface ({args})>"
c_str_callable(ind, obj, args) ==
    <<"\n">> \o Spc(ind) \o <<"<">> \o py_str(obj)
             \o <<" ", "w", "i", "t", "h", " ", "i", "n", "t", "e", "r", "f", "a", "c", "e", " ", "(">>
             \o args \o <<")", ">">>

\* c_str_formatters['func_arg']: "\n{spc:<{indent}}{key},"
c_str_func_arg(ind, key) == <<"\n">> \o Spc(ind) \o key \o <<",">>

\* c_str_formatters['func_def_arg']: "\n{spc:<{indent}}{key}={val},"
c_str_func_def_arg(ind, key, val) ==
    <<"\n">> \o Spc(ind) \o key \o <<"=">> \o val \o <<",">>

\* the two parallel tables, selected by mode m \in {"repr", "str"}
s_strings(m, ind, val) == IF m = "repr" THEN _strings_repr(ind, val) ELSE _strings_str(ind, val)

s_set(m, ind, val) == IF m = "repr" THEN _set_repr(ind, val) ELSE _set_str(ind, val)

s_default(m, ind, val) == IF m = "repr" THEN s_repr_default(ind, val) ELSE s_str_default(ind, val)

c_dict(m, ind, key, size, val) ==
    IF m = "repr" THEN c_repr_dict(ind, key, size, val) ELSE c_str_dict(ind, key, size, val)

c_iterable_item(m, ind, obj_type, start, res, end) ==
    IF m = "repr" THEN c_repr_iterable_item(ind, obj_type, start, res, end)
    ELSE c_str_iterable_item(ind, obj_type, start, res, end)

c_callable(m, ind, obj, args) ==
    IF m = "repr" THEN c_repr_callable(ind, obj, args) ELSE c_str_callable(ind, obj, args)

c_func_arg(m, ind, key) ==
    IF m = "repr" THEN c_repr_func_arg(ind, key) ELSE c_str_func_arg(ind, key)

c_func_def_arg(m, ind, key, val) ==
    IF m = "repr" THEN c_repr_func_def_arg(ind, key, val) ELSE c_str_func_def_arg(ind, key, val)

key_text(m, key) == IF m = "repr" THEN py_repr(key) ELSE py_str(key)

(***************************************************************************)
(* The engine: category dispatch, recursion on indent, max_indent cutoff.  *)
(***************************************************************************)
\* columns added per nesting level
IndentStep == 4

next_indent(ind, multiplier) == ind + multiplier * IndentStep

\* a value that is rendered as a leaf whatever the indent
_simple(v) == ~IsContainer(v)

RECURSIVE MaxOf(_)
MaxOf(ns) == IF ns = <<>> THEN 0
             ELSE LET r == MaxOf(Tail(ns)) IN IF ns[1] > r THEN ns[1] ELSE r

\* a child fragment starts on a line of its own
OnOwnLine(frag) == IF frag # <<>> /\ frag[1] = "\n" THEN frag ELSE <<"\n">> \o frag

\* leaf rendering: strings, then sets, then the default rule
_repr_simple(m, v, ind, nis) ==
    LET i == IF nis THEN 0 ELSE ind
    IN  IF v.t \in {"text", "bytes"} THEN s_strings(m, i, v)
        ELSE IF v.t = "set" THEN s_set(m, i, v)
        ELSE s_default(m, i, v)

\* name of a formal parameter with its variadic marker and annotation
param_key(p) ==
    (CASE p.kind = "var" -> <<"*">> [] p.kind = "kw" -> <<"*", "*">> [] OTHER -> <<>>)
    \o p.name
    \o (IF p.ann = <<>> THEN <<>> ELSE <<":", " ">> \o p.ann)

RECURSIVE process_element(_, _, _, _, _)

\* faulty variant of Tst.__pretty_repr__: indent is not handed on to the parser
Tst_pretty_repr_no_indent(m, self, ind, nis, mx) ==
    process_element(m, [t |-> "text", s |-> self.text], 0, nis, mx)

\* class Tst of the tests: __pretty_repr__ hands its text back to the parser
Tst_pretty_repr(m, self, ind, nis, mx) ==
    process_element(m, [t |-> "text", s |-> self.text], ind, nis, mx)

_repr_callable(m, v, ind, mx) ==
    LET line(p) ==
            IF p.val = <<>> THEN c_func_arg(m, next_indent(ind, 1), param_key(p))
            ELSE c_func_def_arg(m, next_indent(ind, 1), param_key(p),
                                process_element(m, p.val[1], next_indent(ind, 1), TRUE, mx))
        param_str == Concat([k \in 1..Len(v.params) |-> line(v.params[k])])
        args == IF param_str = <<>> THEN <<>> ELSE param_str \o <<"\n">> \o Spc(ind)
    IN  c_callable(m, ind, v, args)

_repr_dict_items(m, v, ind, mx) ==
    LET max_len == MaxOf([k \in 1..Len(v.keys) |-> Len(key_text(m, v.keys[k]))])
    IN  Concat([k \in 1..Len(v.keys) |->
                  c_dict(m, next_indent(ind, 1), v.keys[k], max_len,
                         process_element(m, v.vals[k], next_indent(ind, 2), TRUE, mx))])

_repr_iterable_items(m, v, ind, mx) ==
    Concat([k \in 1..Len(v.items) |->
              OnOwnLine(process_element(m, v.items[k], next_indent(ind, 1), FALSE, mx))
              \o <<",">>])

process_element(m, v, ind, nis, mx) ==
    IF v.t = "Tst" /\ m = "repr" THEN Tst_pretty_repr(m, v, ind, nis, mx)
    ELSE IF v.t = "func" THEN _repr_callable(m, v, ind, mx)
    ELSE IF _simple(v) \/ ind >= mx \/ ContainerLen(v) = 0 THEN _repr_simple(m, v, ind, nis)
    ELSE IF v.t = "dict" THEN
        c_iterable_item(m, ind, <<"d", "i", "c", "t">>, <<"{">>,
                        _repr_dict_items(m, v, ind, mx), <<"}">>)
    ELSE IF v.t = "list" THEN
        c_iterable_item(m, ind, <<"l", "i", "s", "t">>, <<"[">>,
                        _repr_iterable_items(m, v, ind, mx), <<"]">>)
    ELSE IF v.t = "tuple" THEN
        c_iterable_item(m, ind, <<"t", "u", "p", "l", "e">>, <<"(">>,
                        _repr_iterable_items(m, v, ind, mx), <<")">>)
    ELSE
        c_iterable_item(m, ind, <<"s", "e", "t">>, <<"{">>,
                        _repr_iterable_items(m, v, ind, mx), <<"}">>)

\* public entry points
pretty_repr(v, ind, mx, nis) == process_element("repr", v, ind, nis, mx)

pretty_str(v, ind, mx, nis) == process_element("str", v, ind, nis, mx)

(***************************************************************************)
(* The values drawn as inputs.                                             *)
(***************************************************************************)
IntV(n) == [t |-> "int", n |-> n]

BoolV(b) == [t |-> "bool", b |-> b]

Text(s) == [t |-> "text", s |-> s]

Bytes(bs) == [t |-> "bytes", bs |-> bs]

Obj(r) == [t |-> "obj", r |-> r]

List(items) == [t |-> "list", items |-> items]

Tuple(items) == [t |-> "tuple", items |-> items]

SetOf(items) == [t |-> "set", items |-> items]

Dict(keys, vals) == [t |-> "dict", keys |-> keys, vals |-> vals]

Param(name, kind, ann, val) == [name |-> name, kind |-> kind, ann |-> ann, val |-> val]

Func(name, params, ret) == [t |-> "func", name |-> name, params |-> params, ret |-> ret]

\* sequences over S of length at most n, and those without repetition
SeqsUpTo(S, n) == UNION {[1..k -> S] : k \in 0..n}

DistinctSeqsUpTo(S, n) ==
    {q \in SeqsUpTo(S, n) : \A i, j \in 1..Len(q) : i # j => q[i] # q[j]}

RECURSIVE Nest(_)
\* [[...[123]...]], d lists deep
Nest(d) == IF d = 0 THEN IntV(123) ELSE List(<<Nest(d - 1)>>)

Scalars ==
    { IntV(1), IntV(33), BoolV(TRUE), BoolV(FALSE),
      Text(<<"a", "7">>), Text(<<>>),
      Bytes(<<"z", "8">>), Bytes(<<"z", "00", "f0">>),
      Obj(<<"N", "o", "n", "e">>) }

Elems == { IntV(1), IntV(2), Text(<<"a", "7">>) }

KeyAtoms == { IntV(1), IntV(33), Text(<<"k", "5">>) }

DictVals ==
    { IntV(2), SetOf(<<IntV(4)>>), List(<<>>), Dict(<<IntV(123)>>, <<IntV(6)>>) }

Inner ==
    { Dict(<<IntV(1)>>, <<IntV(2)>>), Dict(<<IntV(3)>>, <<SetOf(<<IntV(4)>>)>>),
      List(<<IntV(5), IntV(6)>>), Tuple(<<IntV(8)>>),
      Dict(<<>>, <<>>), List(<<>>), Tuple(<<>>), SetOf(<<>>) }

Flat ==
    {List(q) : q \in SeqsUpTo(Elems, MaxLen)}
    \cup {Tuple(q) : q \in SeqsUpTo(Elems, MaxLen)}
    \cup {SetOf(q) : q \in DistinctSeqsUpTo(Elems, MaxLen)}

Dicts ==
    {Dict(ks, vs) : <<ks, vs>> \in
        {p \in DistinctSeqsUpTo(KeyAtoms, MaxLen) \X SeqsUpTo(DictVals, MaxLen) :
            Len(p[1]) = Len(p[2])}}

Nested ==
    {List(q) : q \in SeqsUpTo(Inner, MaxLen)} \cup {Tuple(q) : q \in SeqsUpTo(Inner, MaxLen)}

Chains == {Nest(d) : d \in 1..NestDepth}

TstClass == Obj(<<"<", "c", "l", "a", "s", "s", " ", "T", ">">>)

tst_instance == Obj(<<"<", "T", " ", "o", "b", "j", "e", "c", "t", ">">>)

NoneValue == Obj(<<"N", "o", "n", "e">>)

\* the formal parameters (arg, darg=1, *positional, **named) of the tests
FullParams ==
    << Param(<<"a", "r", "g">>, "pos", <<>>, <<>>),
       Param(<<"d", "a", "r", "g">>, "pos", <<>>, <<IntV(1)>>),
       Param(<<"p", "o", "s">>, "var", <<>>, <<>>),
       Param(<<"n", "a", "m", "e", "d">>, "kw", <<>>, <<>>) >>

Callables ==
    { Func(<<"e">>, <<>>, <<>>),
      Func(<<"f">>, FullParams, <<>>),
      Func(<<"m">>, <<Param(<<"s", "e", "l", "f">>, "pos", <<>>, <<>>)>> \o FullParams, <<>>),
      Func(<<"m">>, <<Param(<<"s", "e", "l", "f">>, "pos", <<>>, <<tst_instance>>)>> \o FullParams, <<>>),
      Func(<<"c">>, <<Param(<<"c", "l", "s">>, "pos", <<>>, <<TstClass>>)>> \o FullParams, <<>>),
      Func(<<"g">>, <<Param(<<"a">>, "pos", <<"i", "n", "t">>, <<NoneValue>>)>>, <<>>),
      Func(<<"h">>, <<>>, <<"N", "o", "n", "e">>),
      Func(<<"k">>, <<Param(<<"a">>, "pos", <<"i", "n", "t">>, <<NoneValue>>)>>, <<"N", "o", "n", "e">>) }

\* instances of the tests' class Tst
Customs == { [t |-> "Tst", text |-> <<"<", "T", "s", "t", ">">>] }

\* the dict of the tests: {1: 1, 2: 2, 33: 33}
ExampleDict == Dict(<<IntV(1), IntV(2), IntV(33)>>, <<IntV(1), IntV(2), IntV(33)>>)

Values == {ExampleDict} \cup Scalars \cup Flat \cup Dicts \cup Nested \cup Chains \cup Callables \cup Customs

Indents == {0, 4}

MaxIndents == {0, 10, 20, 40}

(***************************************************************************)
(* One render call: the request is drawn, then one entry point runs.       *)
(***************************************************************************)
Init ==
    /\ src \in Values
    /\ indent \in Indents
    /\ max_indent \in MaxIndents
    /\ no_indent_start \in BOOLEAN
    /\ mode = "none"
    /\ result = <<>>
    /\ pc = "call"

PrettyRepr ==
    /\ pc = "call"
    /\ mode' = "repr"
    /\ result' = pretty_repr(src, indent, max_indent, no_indent_start)
    /\ pc' = "done"
    /\ UNCHANGED <<src, indent, max_indent, no_indent_start>>

PrettyStr ==
    /\ pc = "call"
    /\ mode' = "str"
    /\ result' = pretty_str(src, indent, max_indent, no_indent_start)
    /\ pc' = "done"
    /\ UNCHANGED <<src, indent, max_indent, no_indent_start>>

Next == PrettyRepr \/ PrettyStr

Spec == Init /\ [][Next]_vars

(***************************************************************************)
(* Reading a rendering back: lines, indentation, brackets.                 *)
(***************************************************************************)
NlPos(s) == SelectSeq([i \in 1..Len(s) |-> i], LAMBDA i : s[i] = "\n")

Lines(s) ==
    LET p == NlPos(s)
        n == Len(p)
    IN  [k \in 1..(n + 1) |->
            SubSeq(s, IF k = 1 THEN 1 ELSE p[k - 1] + 1, IF k = n + 1 THEN Len(s) ELSE p[k] - 1)]

LeadSpaces(l) ==
    IF \A i \in 1..Len(l) : l[i] = " " THEN Len(l)
    ELSE (CHOOSE i \in 1..Len(l) : l[i] # " " /\ \A j \in 1..(i - 1) : l[j] = " ") - 1

StartsWith(s, p) == Len(s) >= Len(p) /\ SubSeq(s, 1, Len(p)) = p

EndsWith(s, p) == Len(s) >= Len(p) /\ SubSeq(s, Len(s) - Len(p) + 1, Len(s)) = p

Count(s, c) == Cardinality({i \in 1..Len(s) : s[i] = c})

Openers == {"[", "(", "{"}

Closers == {"]", ")", "}"}

CloserOf(c) == CASE c = "[" -> "]" [] c = "(" -> ")" [] c = "{" -> "}"

\* a line that opens a multi-line block / a line made of closing brackets only
OpensBlock(l) == l # <<>> /\ l[Len(l)] \in Openers

ClosesBlock(l) ==
    LET a == SubSeq(l, LeadSpaces(l) + 1, Len(l))
        c == IF a # <<>> /\ a[Len(a)] = "," THEN SubSeq(a, 1, Len(a) - 1) ELSE a
    IN  c # <<>> /\ \A i \in 1..Len(c) : c[i] \in Closers

\* the brackets of a text, in order
BracketsOf(s) == SelectSeq(s, LAMBDA c : c \in Openers \cup Closers)

RECURSIVE Balanced(_, _, _)
\* every opening bracket of s[i..] is closed by its own kind, properly nested
Balanced(s, i, stack) ==
    IF i > Len(s) THEN stack = <<>>
    ELSE IF s[i] \in Openers THEN Balanced(s, i + 1, <<CloserOf(s[i])>> \o stack)
    ELSE IF s[i] \in Closers THEN
        stack # <<>> /\ stack[1] = s[i] /\ Balanced(s, i + 1, Tail(stack))
    ELSE Balanced(s, i + 1, stack)

RECURSIVE BlocksAligned(_, _, _)
\* each closing line stands at the indentation of the line that opened its block
BlocksAligned(ls, k, stack) ==
    IF k > Len(ls) THEN stack = <<>>
    ELSE IF OpensBlock(ls[k]) THEN BlocksAligned(ls, k + 1, <<LeadSpaces(ls[k])>> \o stack)
    ELSE IF ClosesBlock(ls[k]) THEN
        stack # <<>> /\ stack[1] = LeadSpaces(ls[k]) /\ BlocksAligned(ls, k + 1, Tail(stack))
    ELSE BlocksAligned(ls, k + 1, stack)

OpenLines(ls) == SelectSeq(ls, OpensBlock)

\* the container is laid out as a multi-line block at this indent
MultiLine(v, ind, mx) == IsContainer(v) /\ ContainerLen(v) > 0 /\ ind < mx

RECURSIVE IsListNest(_)
\* non-empty lists of ints and of such lists
IsListNest(v) ==
    /\ v.t = "list"
    /\ v.items # <<>>
    /\ \A k \in 1..Len(v.items) : v.items[k].t = "int" \/ IsListNest(v.items[k])

RECURSIVE OpenIndents(_, _, _)
\* the columns at which the lists of a nest open a block, in order of appearance
OpenIndents(v, ind, mx) ==
    IF v.t = "list" /\ v.items # <<>> /\ ind < mx
    THEN <<ind>> \o Concat([k \in 1..Len(v.items) |-> OpenIndents(v.items[k], ind + 4, mx)])
    ELSE <<>>

(***************************************************************************)
(* Claims.                                                                 *)
(***************************************************************************)
Done == pc = "done"

C2_BracketsMatch ==
    (Done /\ IsContainer(src)) =>
        /\ Balanced(BracketsOf(result), 1, <<>>)
        /\ BlocksAligned(Lines(result), 1, <<>>)
        /\ MultiLine(src, indent, max_indent) =>
               LET ls == Lines(result)
               IN  /\ ClosesBlock(ls[Len(ls)])
                   /\ LeadSpaces(ls[Len(ls)]) = indent
                   /\ \E p \in 1..Len(ls) :
                          /\ OpensBlock(ls[p]) /\ LeadSpaces(ls[p]) = indent
                          /\ \A q \in 1..(p - 1) : ls[q] = <<>>

C2_Witness ==
    /\ Done /\ mode = "repr" /\ indent = 4 /\ max_indent = 20
    /\ src = List(<<Dict(<<IntV(3)>>, <<SetOf(<<IntV(4)>>)>>), Tuple(<<IntV(8)>>)>>)
    /\ Len(OpenLines(Lines(result))) = 4

\* the compact token of an empty container
EmptyToken(v) ==
    CASE v.t = "list"  -> <<"[", "]">>
      [] v.t = "tuple" -> <<"(", ")">>
      [] v.t = "dict"  -> <<"{", "}">>
      [] v.t = "set"   -> <<"s", "e", "t", "(", ")">>

IsEmpty(v) == IsContainer(v) /\ ContainerLen(v) = 0

Children(v) ==
    IF v.t = "dict" THEN Concat([k \in 1..Len(v.keys) |-> <<v.keys[k], v.vals[k]>>])
    ELSE IF IsContainer(v) THEN v.items
    ELSE <<>>

RECURSIVE Sum(_)
Sum(ns) == IF ns = <<>> THEN 0 ELSE ns[1] + Sum(Tail(ns))

RECURSIVE EmptyCount(_, _)
\* how many empty containers of type ty the value holds, itself included
EmptyCount(v, ty) ==
    (IF IsEmpty(v) /\ v.t = ty THEN 1 ELSE 0)
    + Sum([k \in 1..Len(Children(v)) |-> EmptyCount(Children(v)[k], ty)])

\* how many times the text p occurs in s
Occurrences(s, p) ==
    Cardinality({i \in 1..(Len(s) - Len(p) + 1) : SubSeq(s, i, i + Len(p) - 1) = p})

\* how many lines of ls equal l
LineCount(ls, l) == Cardinality({p \in 1..Len(ls) : ls[p] = l})

\* C3: an empty container renders as one compact token on one line, at any
\* nesting depth and for any indent / max_indent: {} [] () set(), never a
\* multi-line block; nested in a multi-line list or tuple it is one line of
\* its parent, followed by the parent's trailing comma.
C3_EmptyContainers ==
    /\ (Done /\ IsEmpty(src)) =>
           result = Spc(IF no_indent_start THEN 0 ELSE indent) \o EmptyToken(src)
    /\ (Done /\ IsContainer(src)) =>
           /\ Occurrences(result, <<"[", "]">>) = EmptyCount(src, "list")
           /\ Occurrences(result, <<"{", "}">>) = EmptyCount(src, "dict")
           /\ Occurrences(result, <<"s", "e", "t", "(", ")">>) = EmptyCount(src, "set")
           /\ Occurrences(result, <<"(", ")">>) = EmptyCount(src, "tuple") + EmptyCount(src, "set")
    /\ (Done /\ src.t \in {"list", "tuple"} /\ MultiLine(src, indent, max_indent)) =>
           \A k \in 1..Len(src.items) :
               IsEmpty(src.items[k]) =>
                   LineCount(Lines(result), Spc(indent + 4) \o EmptyToken(src.items[k]) \o <<",">>)
                       = Cardinality({j \in 1..Len(src.items) : src.items[j] = src.items[k]})

C3_Witness ==
    /\ Done /\ mode = "repr" /\ indent = 4 /\ max_indent = 20
    /\ src = List(<<SetOf(<<>>), Dict(<<>>, <<>>)>>)
    /\ LineCount(Lines(result), Spc(8) \o <<"s", "e", "t", "(", ")", ",">>) = 1

\* the lines of ls that stand at exactly column ind
LinesAt(ls, ind) == SelectSeq(ls, LAMBDA l : Len(l) > ind /\ LeadSpaces(l) = ind)

\* C5: a non-empty mapping rendered multi-line yields one entry line per key
\* in the mapping's order, and on every entry line the key's text is padded
\* to the widest key text of that same mapping, so the ':' of all entries
\* fall in one column; {1:1, 2:2, 33:33} gives '    1 : 1,' '    2 : 2,'
\* '    33: 33,'.
C5_KeyColumn ==
    (Done /\ src.t = "dict" /\ MultiLine(src, indent, max_indent)) =>
        LET entries == LinesAt(Lines(result), indent + 4)
            width == MaxOf([k \in 1..Len(src.keys) |-> Len(key_text(mode, src.keys[k]))])
        IN  /\ Len(entries) = Len(src.keys)
            /\ \A k \in 1..Len(src.keys) :
                   LET key == key_text(mode, src.keys[k])
                   IN  /\ StartsWith(entries[k],
                                     Spc(indent + 4) \o key \o Spc(width - Len(key)) \o <<":", " ">>)
                       /\ entries[k][indent + 4 + width + 1] = ":"
                       /\ src.vals[k].t = "int" =>
                              entries[k] = Spc(indent + 4) \o key \o Spc(width - Len(key))
                                           \o <<":", " ">> \o IntStr(src.vals[k].n) \o <<",">>
            /\ (src = ExampleDict /\ indent = 0) =>
                   entries = << <<" ", " ", " ", " ", "1", " ", ":", " ", "1", ",">>,
                                <<" ", " ", " ", " ", "2", " ", ":", " ", "2", ",">>,
                                <<" ", " ", " ", " ", "3", "3", ":", " ", "3", "3", ",">> >>

C5_Witness ==
    /\ Done /\ mode = "repr" /\ indent = 0 /\ max_indent = 20
    /\ src = Dict(<<IntV(1), IntV(33)>>, <<IntV(2), Dict(<<IntV(123)>>, <<IntV(6)>>)>>)
    /\ Len(LinesAt(Lines(result), 4)) = 2

NonZeroDigits == {"1", "2", "3", "4", "5", "6", "7", "8", "9"}

DigitsOf(s) == SelectSeq(s, LAMBDA c : c \in NonZeroDigits)

RECURSIVE LeafDigits(_)
\* the digits of the leaves of a value, in iteration order
LeafDigits(v) ==
    IF IsContainer(v)
    THEN Concat([k \in 1..Len(Children(v)) |-> LeafDigits(Children(v)[k])])
    ELSE DigitsOf(py_repr(v))

\* C10: the max_indent cutoff degrades layout only: for every nested
\* container and every max_indent >= 0 the call returns one string in which
\* no element is omitted or reordered; once indent >= max_indent the
\* children are joined without newlines, still comma-separated, and no
\* block opens at a column at or beyond max_indent.
C10_CutoffKeepsElements ==
    (Done /\ IsContainer(src)) =>
        /\ DigitsOf(result) = LeafDigits(src)
        /\ \A p \in 1..Len(Lines(result)) :
               OpensBlock(Lines(result)[p]) => LeadSpaces(Lines(result)[p]) < max_indent
        /\ indent >= max_indent =>
               /\ Count(result, "\n") = 0
               /\ Count(result, ",") >= ContainerLen(src) - 1
               /\ result = Spc(IF no_indent_start THEN 0 ELSE indent)
                           \o SubSeq(result, (IF no_indent_start THEN 0 ELSE indent) + 1, Len(result))
               /\ result[(IF no_indent_start THEN 0 ELSE indent) + 1] # " "

C10_Witness ==
    /\ Done /\ mode = "repr" /\ indent = 4 /\ max_indent = 0
    /\ src = SetOf(<<IntV(1), IntV(2)>>)
    /\ Count(result, ",") = 1

\* the rendering of the same request with no_indent_start as given (flag)
\* taken from the call made, the other one computed
Rendering(flag) ==
    IF flag = no_indent_start THEN result
    ELSE process_element(mode, src, indent, flag, max_indent)

C4_Claimed ==
    (Done /\ mode = "repr" /\ src.t \in {"list", "tuple"} /\ MultiLine(src, indent, max_indent)) =>
        LET ls == Lines(result)
            margin == IF no_indent_start THEN 0 ELSE indent
            elems == LinesAt(ls, indent + 4)
        IN  /\ StartsWith(result, Spc(margin) \o <<IF src.t = "list" THEN "[" ELSE "(">>)
            /\ ls[Len(ls)] = Spc(indent) \o <<IF src.t = "list" THEN "]" ELSE ")">>
            /\ (\A k \in 1..Len(src.items) : ~IsContainer(src.items[k])) =>
                   /\ Len(elems) = Len(src.items)
                   /\ \A k \in 1..Len(elems) : elems[k][Len(elems[k])] = ","
                   /\ DigitsOf(result) = LeafDigits(src)

\* C6 (as stated): for a boolean, a number, a text string or a binary string
\* v, pretty_repr(v) at indent 0 is repr(v): one line, no added prefix, no
\* triple quotes.
C6_Claimed ==
    (Done /\ mode = "repr" /\ indent = 0 /\ src.t \in {"int", "bool", "text", "bytes"}) =>
        result = py_repr(src)

\* the parameter list the callable rendering is stated to have
ClaimedParams(v, ind) ==
    IF v.params = <<>> THEN <<>>
    ELSE Concat([k \in 1..Len(v.params) |->
                    <<"\n">> \o Spc(ind + 4) \o param_key(v.params[k])
                    \o (IF v.params[k].val = <<>> THEN <<>>
                        ELSE <<"=">> \o py_repr(v.params[k].val[1]))
                    \o <<",">>])
         \o <<"\n">> \o Spc(ind)

ClaimedCallable(v, margin, ind) ==
    Spc(margin) \o <<"<">> \o py_repr(v)
    \o <<" ", "w", "i", "t", "h", " ", "i", "n", "t", "e", "r", "f", "a", "c", "e", " ", "(">>
    \o ClaimedParams(v, ind) \o <<")">>
    \o (IF v.ret = <<>> THEN <<>> ELSE <<" ", "-", ">", " ">> \o v.ret)
    \o <<">">>

\* C8 (as stated): a callable renders as '<' repr ' with interface (' params
\* ')' [' -> ' return annotation] '>', params having one line per formal
\* parameter, in order, one level deeper than the callable's line, each ended
\* by a comma: the name with '*' / '**' for variadics, ': annotation' when
\* annotated, '=value' for a default or a bound self / cls; no parameter
\* gives '()' with no line break inside.
C8_Claimed ==
    (Done /\ mode = "repr" /\ src.t = "func") =>
        result \in {ClaimedCallable(src, 0, indent), ClaimedCallable(src, indent, indent)}

====
